---- MODULE Spec2Model ----
(***************************************************************************)
(* pyReMMit: the five "Change Level" commands (ceilings, floors, roofs,    *)
(* walls, stairs) and the "IFC Shared Parameters" command, each modelled   *)
(* as one run of its script against the host document.                     *)
(*                                                                         *)
(* The host (document, parameters, transaction, dialogs) is modelled as a  *)
(* store: a parameter Set either stores the value or raises, a transaction *)
(* keeps the writes on Commit and restores the document on RollBack.       *)
(***************************************************************************)
EXTENDS Integers, Sequences, FiniteSets, TLC

(***************************************************************************)
(* Bounds of the model.                                                    *)
(***************************************************************************)
\* Levels of the document are 1..NumLevels.
NumLevels == 2
\* Elements of the document are 1..NumElems.
NumElems == 3
\* Magnitude of the offsets the elements start with.
MaxOffset == 1
\* Vertical distance between two consecutive levels.
StoreyHeight == 3

(***************************************************************************)
(* The host document: levels.                                              *)
(***************************************************************************)
Scripts == {"ceilings", "floors", "roofs", "walls", "stairs"}

\* The scripts whose main() also handles a top constraint.
TopScripts == {"walls", "stairs"}

Levels == 1..NumLevels
Elems == 1..NumElems

\* ElementId.InvalidElementId
InvalidElementId == 0

\* Level.Elevation; level 1 is the highest, level NumLevels is at 0.
Elevation(l) == (NumLevels - l) * StoreyHeight

\* Level.Name; names are unique in a document.
Name(l) == <<"Level", l>>

LevelNames == {Name(l) : l \in Levels}

\* The answer of a dialog the user closed with Cancel (ask_for_one_item gives None).
Cancelled == <<"None">>

(***************************************************************************)
(* get_levels(): all levels sorted from highest to lowest.                 *)
(***************************************************************************)
RECURSIVE SortedByElevation(_)
SortedByElevation(S) ==
    IF S = {} THEN <<>>
    ELSE LET top == CHOOSE l \in S : \A m \in S : Elevation(m) <= Elevation(l)
         IN  <<top>> \o SortedByElevation(S \ {top})

get_levels == SortedByElevation(Levels)

\* level_options ignoring the name picked: always the highest level.
level_options_first(nm) == get_levels[1]

\* level_options = {lvl.Name: lvl for lvl in all_levels}
level_options(nm) == CHOOSE l \in Levels : Name(l) = nm


(***************************************************************************)
(* State of a run of a "Change Level" command.                             *)
(***************************************************************************)
VARIABLES
    script,      \* the command that runs
    selection,   \* uidoc.Selection.GetElementIds()
    kind,        \* the class/category of each element, named by its script
    docBefore,   \* the document as it was before the run
    pc,          \* where main() is
    doc,         \* the document: each element's level, offset, top level, top offset
    txSnapshot,  \* what the host restores on RollBack
    tx,          \* the transaction: "none", "started", "committed", "rolledback"
    txStarts,    \* how many times t.Start() was called
    defaultName, \* the default offered in the target level prompt
    target,      \* target_level (InvalidElementId: not chosen)
    topOption,   \* selected_top_option
    topTarget,   \* target_top_level (InvalidElementId: not chosen)
    idx,         \* position of the loop in the selected elements
    counts,      \* the five counters of main()
    prompts,     \* the prompts shown so far, each with the user's answer
    writes,      \* the parameter Set calls that stored a value, in order
    result,      \* what the change functions returned for each element processed
    faulted,     \* whether the host has refused a call of a change function
    commitRaised,\* whether t.Commit() raised
    report       \* the dialog main() ended with: "none", "noSelection", "failed", "summary"

\* What a run is given: never changed by main().
givenVars == <<script, selection, kind, docBefore>>

rehostVars == <<givenVars, pc, doc, txSnapshot, tx, txStarts, defaultName, target,
                topOption, topTarget, idx, counts, prompts, writes, result, faulted,
                commitRaised, report>>

(***************************************************************************)
(* State of a run of the "IFC Shared Parameters" command.                  *)
(***************************************************************************)
VARIABLES
    calls,          \* the add_shared_parameters calls to make, each a binding type
    fileDefs,       \* the target parameters the shared parameters file defines
    catStatus,      \* what each of MAJOR_CATEGORIES resolves to
    callIdx,        \* the call that runs (0: none yet)
    ipc,            \* where add_shared_parameters is
    bindings,       \* doc.ParameterBindings
    bindingsBefore, \* doc.ParameterBindings when the running call began
    bindSnapshot,   \* what the host restores on RollBack
    itx,            \* the transaction of the running call
    itxLog,         \* Start, Commit and RollBack of the running call, in order
    paramIdx,       \* position of the loop in target_params
    outcomes,       \* what the running call did for each target parameter so far
    apiCalls,       \* Remove and Insert calls of the running call, in order
    dialogs,        \* TaskDialog.Show calls of the running call
    previous        \* the call before: how its transaction ended, its host calls

ifcGiven == <<calls, fileDefs, catStatus>>

ifcVars == <<ifcGiven, callIdx, ipc, bindings, bindingsBefore, bindSnapshot, itx, itxLog,
             paramIdx, outcomes, apiCalls, dialogs, previous>>

vars == <<rehostVars, ifcVars>>

(***************************************************************************)
(* Parameter names of each script (the only textual difference between     *)
(* the scripts' change functions).                                         *)
(***************************************************************************)
LevelParam(s) ==
    CASE s = "ceilings" -> "LEVEL_PARAM"
      [] s = "floors"   -> "LEVEL_PARAM"
      [] s = "roofs"    -> "ROOF_BASE_LEVEL_PARAM"
      [] s = "walls"    -> "WALL_BASE_CONSTRAINT"
      [] s = "stairs"   -> "STAIRS_BASE_LEVEL_PARAM"

OffsetParam(s) ==
    CASE s = "ceilings" -> "CEILING_HEIGHTABOVELEVEL_PARAM"
      [] s = "floors"   -> "FLOOR_HEIGHTABOVELEVEL_PARAM"
      [] s = "roofs"    -> "ROOF_LEVEL_OFFSET_PARAM"
      [] s = "walls"    -> "WALL_BASE_OFFSET"
      [] s = "stairs"   -> "STAIRS_BASE_OFFSET"

TopLevelParam(s) == IF s = "walls" THEN "WALL_HEIGHT_TYPE" ELSE "STAIRS_TOP_LEVEL_PARAM"

TopOffsetParam(s) == IF s = "walls" THEN "WALL_TOP_OFFSET" ELSE "STAIRS_TOP_OFFSET"

(***************************************************************************)
(* Selection filter: get_selected_ceilings() and its four siblings.        *)
(***************************************************************************)
\* A selection filter without the test of the element's kind.
get_selected_any_kind(s, sel, k) ==
    LET Picked(e) == e \in sel
    IN  SelectSeq([i \in 1..NumElems |-> i], Picked)

get_selected(s, sel, k) ==
    LET Picked(e) == e \in sel /\ k[e] = s
    IN  SelectSeq([i \in 1..NumElems |-> i], Picked)

(***************************************************************************)
(* get_<kind>_info: level, offset and absolute elevation of an element.    *)
(***************************************************************************)
get_bottom_info(d, e) ==
    IF d[e].level = InvalidElementId
    THEN [level |-> InvalidElementId, offset |-> 0, absolute_elevation |-> 0]
    ELSE [level |-> d[e].level, offset |-> d[e].offset,
          absolute_elevation |-> Elevation(d[e].level) + d[e].offset]

\* A top info that reads the base level and base offset.
get_top_info_reads_base(d, e) == get_bottom_info(d, e)

get_top_info(d, e) ==
    IF d[e].topLevel = InvalidElementId
    THEN [level |-> InvalidElementId, offset |-> 0, absolute_elevation |-> 0]
    ELSE [level |-> d[e].topLevel, offset |-> d[e].topOffset,
          absolute_elevation |-> Elevation(d[e].topLevel) + d[e].topOffset]

\* A test that takes every top to be constrained to a level.
is_top_constrained_always(d, e) == TRUE

is_top_constrained_to_level(d, e) == d[e].topLevel # InvalidElementId

(***************************************************************************)
(* get_most_common_level: Counter(levels).most_common(1).  Among levels    *)
(* with the same count the one returned is the first in the Counter's      *)
(* iteration order, which the script does not control: any of them.        *)
(***************************************************************************)
LevelCount(d, sel, l) == Cardinality({i \in 1..Len(sel) : get_bottom_info(d, sel[i]).level = l})

\* The first level met rather than the most common one: any referenced level.
AnyReferencedLevel(d, sel) == {l \in Levels : LevelCount(d, sel, l) > 0}

MostCommonLevels(d, sel) ==
    {l \in Levels : /\ LevelCount(d, sel, l) > 0
                    /\ \A m \in Levels : LevelCount(d, sel, m) <= LevelCount(d, sel, l)}

\* The names main() may come to offer as the default of the target level prompt.
DefaultLevelNames(d, sel) ==
    IF MostCommonLevels(d, sel) # {}
    THEN {Name(l) : l \in MostCommonLevels(d, sel)}
    ELSE {Name(get_levels[1])}

(***************************************************************************)
(* change_<kind>_level / change_<kind>_bottom_level.  fault is what the    *)
(* host does in this call: "none", "missing" (get_Parameter gives None),   *)
(* "levelSet" (level_param.Set raises), "offsetSet" (offset_param.Set      *)
(* raises).  The result: the boolean returned, the document, the Set calls *)
(* that stored a value, and whether the except branch ran.                 *)
(***************************************************************************)
\* NewOffset with the subtraction the wrong way round.
NewOffsetSignSlip(absolute_elevation, new_level) == Elevation(new_level) - absolute_elevation

NewOffset(absolute_elevation, new_level) == absolute_elevation - Elevation(new_level)

\* An except branch that returns True.
CaughtReturnsTrue(d, sets) == [ok |-> TRUE, doc |-> d, sets |-> sets, raised |-> TRUE]

\* 'except Exception as e: print(...); return False', after the Set calls sets
\* have left the document as d.
Caught(d, sets) == [ok |-> FALSE, doc |-> d, sets |-> sets, raised |-> TRUE]

\* 'return False' before any Set call.
Declined(d) == [ok |-> FALSE, doc |-> d, sets |-> <<>>, raised |-> FALSE]

\* change_bottom_level with the two Set calls in the other order.
change_bottom_level_offset_first(s, d, e, new_level, fault) ==
    LET info == get_bottom_info(d, e)
        new_offset == NewOffset(info.absolute_elevation, new_level)
        d1 == [d EXCEPT ![e].offset = new_offset]
        d2 == [d1 EXCEPT ![e].level = new_level]
        w1 == <<[elem |-> e, param |-> OffsetParam(s), value |-> new_offset]>>
        w2 == <<[elem |-> e, param |-> LevelParam(s), value |-> new_level]>>
    IN  IF info.level = InvalidElementId \/ fault = "missing"
        THEN Declined(d)
        ELSE IF fault = "offsetSet"
        THEN Caught(d, <<>>)
        ELSE IF fault = "levelSet"
        THEN Caught(d1, w1)
        ELSE [ok |-> TRUE, doc |-> d2, sets |-> w1 \o w2, raised |-> FALSE]

change_bottom_level(s, d, e, new_level, fault) ==
    LET info == get_bottom_info(d, e)
        new_offset == NewOffset(info.absolute_elevation, new_level)
        d1 == [d EXCEPT ![e].level = new_level]
        d2 == [d1 EXCEPT ![e].offset = new_offset]
        w1 == <<[elem |-> e, param |-> LevelParam(s), value |-> new_level]>>
        w2 == <<[elem |-> e, param |-> OffsetParam(s), value |-> new_offset]>>
    IN  IF info.level = InvalidElementId
        THEN Declined(d)
        ELSE IF fault = "missing"
        THEN Declined(d)
        ELSE IF fault = "levelSet"
        THEN Caught(d, <<>>)
        ELSE IF fault = "offsetSet"
        THEN Caught(d1, w1)
        ELSE [ok |-> TRUE, doc |-> d2, sets |-> w1 \o w2, raised |-> FALSE]

(***************************************************************************)
(* change_wall_top_level / change_stair_top_level.                         *)
(***************************************************************************)
change_top_level(s, d, e, new_level, fault) ==
    LET info == get_top_info(d, e)
        new_top_offset == NewOffset(info.absolute_elevation, new_level)
        d1 == [d EXCEPT ![e].topLevel = new_level]
        d2 == [d1 EXCEPT ![e].topOffset = new_top_offset]
        w1 == <<[elem |-> e, param |-> TopLevelParam(s), value |-> new_level]>>
        w2 == <<[elem |-> e, param |-> TopOffsetParam(s), value |-> new_top_offset]>>
    IN  IF info.level = InvalidElementId
        THEN Declined(d)
        ELSE IF fault = "missing"
        THEN Declined(d)
        ELSE IF fault = "levelSet"
        THEN Caught(d, <<>>)
        ELSE IF fault = "offsetSet"
        THEN Caught(d1, w1)
        ELSE [ok |-> TRUE, doc |-> d2, sets |-> w1 \o w2, raised |-> FALSE]


(***************************************************************************)
(* The documents and selections a run may start from.  The elements the    *)
(* script will process (selected, of its kind) reference any level or      *)
(* none; the others (selected but of another kind, or not selected) sit    *)
(* on the lowest level.                                                    *)
(***************************************************************************)
OtherKind(s) == IF s = "ceilings" THEN "floors" ELSE "ceilings"

\* The offset element e starts with: above the level for every other element,
\* below it for the rest.
StartOffset(e) == IF e % 2 = 1 THEN MaxOffset ELSE 0 - MaxOffset

Bystander == [level |-> NumLevels, offset |-> MaxOffset,
              topLevel |-> InvalidElementId, topOffset |-> 0]

\* The level a top constrained to a level starts at: the level above the base.
TopAbove(lv) == IF lv > 1 THEN lv - 1 ELSE 1

\* Whether element e of script s starts with its top constrained to a level:
\* every other wall or stair does, the rest are unconnected at the top.
TopConstrained(s, e) == s \in TopScripts /\ e % 2 = 1

\* An element to process, lv its level.
MakeElement(s, e, lv) ==
    [level |-> lv, offset |-> StartOffset(e),
     topLevel |-> IF TopConstrained(s, e) THEN TopAbove(lv) ELSE InvalidElementId,
     topOffset |-> IF TopConstrained(s, e) THEN 0 - StartOffset(e) ELSE 0]

\* The documents a run may start from: the odd elements to process are on one
\* level, or on none, and the even ones on one level, or on none.
Documents(s, sel, k) ==
    {[e \in Elems |-> IF e \in sel /\ k[e] = s
                      THEN MakeElement(s, e, lv[e % 2])
                      ELSE Bystander] :
        lv \in [{0, 1} -> Levels \cup {InvalidElementId}]}

\* What the elements of the document are: all of the command's kind, or the
\* last one of another kind.
Kinds(s) == {[e \in Elems |-> IF e = NumElems /\ other THEN OtherKind(s) ELSE s] :
                other \in BOOLEAN}

ZeroCounts == [success |-> 0, fail |-> 0, top_success |-> 0, top_fail |-> 0,
               top_not_applicable |-> 0]

\* The answers of the top handling prompt.
KeepTop == <<"Do not change top">>
ChangeTop == <<"Change top">>

InitRehost ==
    /\ script \in Scripts
    /\ selection \in SUBSET Elems
    /\ kind \in Kinds(script)
    /\ \A e \in Elems : e \in selection \/ kind[e] = script
    /\ doc \in Documents(script, selection, kind)
    /\ docBefore = doc
    /\ txSnapshot = doc
    /\ pc = "start"
    /\ tx = "none"
    /\ txStarts = 0
    /\ defaultName = Cancelled
    /\ target = InvalidElementId
    /\ topOption = Cancelled
    /\ topTarget = InvalidElementId
    /\ idx = 0
    /\ counts = ZeroCounts
    /\ prompts = <<>>
    /\ writes = <<>>
    /\ result = <<>>
    /\ faulted = FALSE
    /\ commitRaised = FALSE
    /\ report = "none"

selected == get_selected(script, selection, kind)

(***************************************************************************)
(* main(), step by step.                                                   *)
(***************************************************************************)
\* main(): the selection filter, the 'please select' alert, the default level.
GetSelection ==
    /\ pc = "start"
    /\ IF selected = <<>>
       THEN /\ report' = "noSelection"
            /\ pc' = "done"
            /\ UNCHANGED defaultName
       ELSE /\ defaultName' \in DefaultLevelNames(doc, selected)
            /\ pc' = "askTarget"
            /\ UNCHANGED report
    /\ UNCHANGED <<givenVars, doc, txSnapshot, tx, txStarts, target, topOption, topTarget,
                   idx, counts, prompts, writes, result, faulted, commitRaised>>
    /\ UNCHANGED ifcVars

\* main() without the 'return' after a cancelled prompt.
AfterPromptNoReturn(answer, next) == next

\* 'if not selected_level_name: return': where main() goes after a prompt.
AfterPrompt(answer, next) == IF answer = Cancelled THEN "done" ELSE next

\* Top handling in the walls script only.
AfterTargetLevelWallsOnly(s) == IF s = "walls" THEN "askTopOption" ELSE "transaction"

\* What main() does once the target level is chosen.
AfterTargetLevel(s) == IF s \in TopScripts THEN "askTopOption" ELSE "transaction"

\* forms.ask_for_one_item(level names, default=default_level_name)
AskTargetLevel ==
    /\ pc = "askTarget"
    /\ \E answer \in LevelNames \cup {Cancelled} :
          /\ prompts' = Append(prompts, [prompt |-> "target", answer |-> answer])
          /\ pc' = AfterPrompt(answer, AfterTargetLevel(script))
          /\ target' = IF answer = Cancelled THEN target ELSE level_options(answer)
    /\ UNCHANGED <<givenVars, doc, txSnapshot, tx, txStarts, defaultName, topOption,
                   topTarget, idx, counts, writes, result, faulted, commitRaised, report>>
    /\ UNCHANGED ifcVars

\* What main() does once the top handling is chosen.
AfterTopOption(answer) == IF answer = ChangeTop THEN "askTopLevel" ELSE "transaction"

\* forms.ask_for_one_item(["Do not change top ...", "Change top ..."])
AskTopOption ==
    /\ pc = "askTopOption"
    /\ \E answer \in {KeepTop, ChangeTop, Cancelled} :
          /\ prompts' = Append(prompts, [prompt |-> "topOption", answer |-> answer])
          /\ pc' = AfterPrompt(answer, AfterTopOption(answer))
          /\ topOption' = answer
    /\ UNCHANGED <<givenVars, doc, txSnapshot, tx, txStarts, defaultName, target,
                   topTarget, idx, counts, writes, result, faulted, commitRaised, report>>
    /\ UNCHANGED ifcVars

\* forms.ask_for_one_item(level names) for the top constraint
AskTopLevel ==
    /\ pc = "askTopLevel"
    /\ \E answer \in LevelNames \cup {Cancelled} :
          /\ prompts' = Append(prompts, [prompt |-> "topTarget", answer |-> answer])
          /\ pc' = AfterPrompt(answer, "transaction")
          /\ topTarget' = IF answer = Cancelled THEN topTarget ELSE level_options(answer)
    /\ UNCHANGED <<givenVars, doc, txSnapshot, tx, txStarts, defaultName, target,
                   topOption, idx, counts, writes, result, faulted, commitRaised, report>>
    /\ UNCHANGED ifcVars

\* with Transaction(doc, ...) as t: t.Start()
StartTransaction ==
    /\ pc = "transaction"
    /\ tx' = "started"
    /\ txStarts' = txStarts + 1
    /\ txSnapshot' = doc
    /\ idx' = 1
    /\ pc' = "loop"
    /\ UNCHANGED <<givenVars, doc, defaultName, target, topOption, topTarget, counts,
                   prompts, writes, result, faulted, commitRaised, report>>
    /\ UNCHANGED ifcVars

\* What the host may do in one call of a change function.
Faults == {"none", "missing", "levelSet", "offsetSet"}

\* The Set calls of a change, stamped with the state of the transaction.
Stamp(sets, t) == [i \in 1..Len(sets) |-> [elem |-> sets[i].elem, param |-> sets[i].param,
                                            value |-> sets[i].value, tx |-> t]]

\* A loop that has no else branch: failures are not counted.
CountBaseDropsFailures(c, ok) == IF ok THEN [c EXCEPT !.success = @ + 1] ELSE c

\* 'if change(...): success_count += 1 else: fail_count += 1'
CountBase(c, ok) ==
    IF ok THEN [c EXCEPT !.success = @ + 1] ELSE [c EXCEPT !.fail = @ + 1]

\* A top handling that does not count the elements it does not apply to.
CountTopSkipsUnconnected(c, constrained, ok) ==
    IF ~constrained THEN c
    ELSE IF ok THEN [c EXCEPT !.top_success = @ + 1]
    ELSE [c EXCEPT !.top_fail = @ + 1]

\* The top handling of one element: not applicable, changed, or failed.
CountTop(c, constrained, ok) ==
    IF ~constrained THEN [c EXCEPT !.top_not_applicable = @ + 1]
    ELSE IF ok THEN [c EXCEPT !.top_success = @ + 1]
    ELSE [c EXCEPT !.top_fail = @ + 1]

\* A loop that handles the top whatever the answer was.
DoTopAlways(option) == TRUE

\* 'if selected_top_option == "Change top constraint":' in the loop.
DoTop(option) == option = ChangeTop

\* One iteration of the for loop of main().
ProcessElement ==
    /\ pc = "loop"
    /\ idx <= Len(selected)
    /\ \E bf \in Faults, tf \in Faults :
         LET e == selected[idx]
             base == change_bottom_level(script, doc, e, target, bf)
             doTop == DoTop(topOption)
             constrained == is_top_constrained_to_level(base.doc, e)
             tried == doTop /\ constrained
             top == IF tried
                    THEN change_top_level(script, base.doc, e, topTarget, tf)
                    ELSE Declined(base.doc)
         IN  /\ bf # "none" => get_bottom_info(doc, e).level # InvalidElementId
             /\ tf # "none" => tried
             /\ bf # "none" \/ tf # "none" => ~faulted /\ (bf = "none" \/ tf = "none")
             /\ faulted' = (faulted \/ bf # "none" \/ tf # "none")
             /\ doc' = top.doc
             /\ writes' = writes \o Stamp(base.sets \o top.sets, tx)
             /\ result' = Append(result,
                    [elem |-> e, base |-> base.ok, baseRaised |-> base.raised,
                     top |-> IF ~doTop THEN "skipped"
                             ELSE IF ~constrained THEN "notApplicable"
                             ELSE IF top.ok THEN "changed" ELSE "failed",
                     topRaised |-> top.raised])
             /\ counts' = IF doTop
                          THEN CountTop(CountBase(counts, base.ok), constrained, top.ok)
                          ELSE CountBase(counts, base.ok)
    /\ idx' = idx + 1
    /\ UNCHANGED <<givenVars, pc, txSnapshot, tx, txStarts, defaultName, target, topOption,
                   topTarget, prompts, commitRaised, report>>
    /\ UNCHANGED ifcVars

\* The except branch without its 'return': the summary is shown after the alert.
OutcomeNoReturn(commit_raised) ==
    [tx |-> IF commit_raised THEN "rolledback" ELSE "committed", report |-> "summary"]

\* How main() ends after the loop: t.Commit() and the summary, or the except
\* branch: t.RollBack(), the 'Transaction Failed' alert and return.
Outcome(commit_raised) ==
    IF commit_raised THEN [tx |-> "rolledback", report |-> "failed"]
    ELSE [tx |-> "committed", report |-> "summary"]

\* A RollBack that leaves the writes in the document.
RollBackKeepsWrites(d, snapshot) == d

\* t.RollBack(): the host restores the document.
RollBack(d, snapshot) == snapshot

\* t.Commit() returns; the summary dialog is shown.
Commit ==
    /\ pc = "loop"
    /\ idx > Len(selected)
    /\ tx' = Outcome(FALSE).tx
    /\ report' = Outcome(FALSE).report
    /\ pc' = "done"
    /\ UNCHANGED <<givenVars, doc, txSnapshot, txStarts, defaultName, target, topOption,
                   topTarget, idx, counts, prompts, writes, result, faulted, commitRaised>>
    /\ UNCHANGED ifcVars

\* t.Commit() raises: the except branch of main() rolls back and alerts.
CommitRaises ==
    /\ pc = "loop"
    /\ idx > Len(selected)
    /\ commitRaised' = TRUE
    /\ tx' = Outcome(TRUE).tx
    /\ doc' = RollBack(doc, txSnapshot)
    /\ report' = Outcome(TRUE).report
    /\ pc' = "done"
    /\ UNCHANGED <<givenVars, txSnapshot, txStarts, defaultName, target, topOption,
                   topTarget, idx, counts, prompts, writes, result, faulted>>
    /\ UNCHANGED ifcVars

(***************************************************************************)
(* The "IFC Shared Parameters" command.                                    *)
(***************************************************************************)
\* Length of a target parameter list (target_params).
NumParams == 2
\* Length of MAJOR_CATEGORIES.
NumCats == 2

BindingTypes == {"instance", "type"}

\* target_params of a call: the parameters of one list, by position.
TargetParams(binding_type) == [i \in 1..NumParams |-> <<binding_type, i>>]

AllParams == BindingTypes \X (1..NumParams)

Cats == 1..NumCats

\* BuiltInCategory.OST_StairsStringerCarriage, which the script treats specially.
StairsStringerCarriage == 1

\* Category.Name
CatName(c) == <<"Category", c>>

\* get_category_for_bic gives None, or a category that allows bound parameters
\* or does not.
CatStatuses == {"ok", "notAllowed", "unresolved"}

\* The category test with the special case taking over: only the stringer
\* category is ever collected.
target_category_set_stringer_only(status) ==
    {c \in Cats : status[c] # "unresolved" /\ c = StairsStringerCarriage}

\* The loop over MAJOR_CATEGORIES: target_category_set.
target_category_set(status) ==
    {c \in Cats : /\ status[c] # "unresolved"
                  /\ (c = StairsStringerCarriage \/ status[c] = "ok")}

\* target_categories: the names of the categories of target_category_set.
target_categories(status) == {CatName(c) : c \in target_category_set(status)}

Unbound == [bound |-> FALSE, cats |-> {}, type |-> "none"]

\* app.Create.NewTypeBinding / NewInstanceBinding(target_category_set)
NewBinding(binding_type, status) ==
    [bound |-> TRUE, cats |-> target_category_set(status),
     type |-> IF binding_type = "type" THEN "type" ELSE "instance"]

\* A test against all of MAJOR_CATEGORIES rather than the target categories.
MissingCategoriesOfAll(existing, status) ==
    ~({CatName(c) : c \in Cats} \subseteq {CatName(c) : c \in existing.cats})

\* 'not target_category_names.issubset(current_categories)'
MissingCategories(existing, status) ==
    ~(target_categories(status) \subseteq {CatName(c) : c \in existing.cats})

\* What one iteration of the loop over target_params does for parameter p:
\* the outcome printed, the bindings, and the Remove and Insert calls made.
\* insert_ok is what doc.ParameterBindings.Insert returns if it is called.
process_param(b, p, defined, binding_type, status, insert_ok) ==
    LET new_binding == NewBinding(binding_type, status)
        inserted == IF insert_ok THEN [b EXCEPT ![p] = new_binding]
                    ELSE [b EXCEPT ![p] = Unbound]
        insert == [call |-> "Insert", param |-> p, ok |-> insert_ok]
        remove == [call |-> "Remove", param |-> p, ok |-> TRUE]
    IN  IF ~defined
        THEN [outcome |-> "notFound", bindings |-> b, api |-> <<>>]
        ELSE IF ~b[p].bound
        THEN [outcome |-> IF insert_ok THEN "added" ELSE "failedAdd",
              bindings |-> IF insert_ok THEN inserted ELSE b, api |-> <<insert>>]
        ELSE IF MissingCategories(b[p], status)
        THEN [outcome |-> IF insert_ok THEN "updated" ELSE "failedUpdate",
              bindings |-> inserted, api |-> <<remove, insert>>]
        ELSE [outcome |-> "already", bindings |-> b, api |-> <<>>]

\* The bindings a document may hold before the command runs: each target
\* parameter is unbound, bound to all of MAJOR_CATEGORIES, or bound to all
\* but the last of them.
ExistingBinding(st, binding_type) ==
    CASE st = "unbound" -> Unbound
      [] st = "partial" -> [bound |-> TRUE, cats |-> Cats \ {NumCats}, type |-> binding_type]
      [] st = "full"    -> [bound |-> TRUE, cats |-> Cats, type |-> binding_type]

\* The runs of the command: Cancel, one of the three command links, or the
\* command run twice with the same link.
CallLists == {<<>>, <<"instance">>, <<"type">>, <<"instance", "type">>,
              <<"instance", "instance">>, <<"type", "type">>}

\* No call was made before the first one.
NoCall == [itx |-> "none", api |-> <<>>]

InitIfcState ==
    /\ calls \in CallLists
    /\ fileDefs \in SUBSET (1..NumParams)
    /\ catStatus \in [Cats -> CatStatuses]
    /\ \E st \in [1..NumParams -> {"unbound", "partial", "full"}] :
          bindings = [p \in AllParams |-> ExistingBinding(st[p[2]], p[1])]
    /\ bindingsBefore = bindings
    /\ bindSnapshot = bindings
    /\ callIdx = 0
    /\ ipc = "idle"
    /\ itx = "none"
    /\ itxLog = <<>>
    /\ paramIdx = 0
    /\ outcomes = <<>>
    /\ apiCalls = <<>>
    /\ dialogs = <<>>
    /\ previous = NoCall

\* add_shared_parameters is called: the file check, then transaction.Start().
BeginCall ==
    /\ ipc \in {"idle", "done"}
    /\ callIdx < Len(calls)
    /\ callIdx' = callIdx + 1
    /\ previous' = [itx |-> itx, api |-> apiCalls]
    /\ bindingsBefore' = bindings
    /\ outcomes' = <<>>
    /\ apiCalls' = <<>>
    /\ paramIdx' = 0
    /\ \E exists \in BOOLEAN :
          IF exists
          THEN /\ itx' = "started"
               /\ itxLog' = <<"Start">>
               /\ bindSnapshot' = bindings
               /\ dialogs' = <<>>
               /\ ipc' = "open"
          ELSE /\ itx' = "none"
               /\ itxLog' = <<>>
               /\ dialogs' = <<"Shared parameters file not found">>
               /\ ipc' = "done"
               /\ UNCHANGED bindSnapshot
    /\ UNCHANGED <<ifcGiven, bindings>>
    /\ UNCHANGED rehostVars

\* app.OpenSharedParameterFile() gives the file, gives None, or raises.
OpenFile ==
    /\ ipc = "open"
    /\ \E opened \in {"file", "none", "raises"} :
          IF opened = "file"
          THEN /\ ipc' = "params"
               /\ paramIdx' = 1
               /\ UNCHANGED <<bindings, itx, itxLog, dialogs>>
          ELSE /\ ipc' = "done"
               /\ itx' = "rolledback"
               /\ itxLog' = Append(itxLog, "RollBack")
               /\ bindings' = RollBack(bindings, bindSnapshot)
               /\ dialogs' = <<IF opened = "none"
                               THEN "Could not open shared parameters file"
                               ELSE "An error occurred">>
               /\ UNCHANGED paramIdx
    /\ UNCHANGED <<ifcGiven, previous, callIdx, bindingsBefore, bindSnapshot, outcomes, apiCalls>>
    /\ UNCHANGED rehostVars

\* One iteration of 'for param_name in target_params'.
ProcessParam ==
    /\ ipc = "params"
    /\ paramIdx <= NumParams
    /\ \E insert_ok \in BOOLEAN :
         LET binding_type == calls[callIdx]
             p == TargetParams(binding_type)[paramIdx]
             r == process_param(bindings, p, paramIdx \in fileDefs, binding_type,
                                catStatus, insert_ok)
         IN  /\ ~insert_ok => r.api # <<>>
             /\ bindings' = r.bindings
             /\ outcomes' = Append(outcomes, r.outcome)
             /\ apiCalls' = apiCalls \o r.api
    /\ paramIdx' = paramIdx + 1
    /\ UNCHANGED <<ifcGiven, previous, callIdx, ipc, bindingsBefore, bindSnapshot, itx, itxLog, dialogs>>
    /\ UNCHANGED rehostVars

\* A host call of the loop raises: the except branch rolls back and reports.
ParamRaises ==
    /\ ipc = "params"
    /\ paramIdx <= NumParams
    /\ paramIdx \in fileDefs
    /\ ipc' = "done"
    /\ itx' = "rolledback"
    /\ itxLog' = Append(itxLog, "RollBack")
    /\ bindings' = RollBack(bindings, bindSnapshot)
    /\ dialogs' = <<"An error occurred">>
    /\ UNCHANGED <<ifcGiven, previous, callIdx, bindingsBefore, bindSnapshot, paramIdx, outcomes,
                   apiCalls>>
    /\ UNCHANGED rehostVars

\* transaction.Commit() returns.
CommitParams ==
    /\ ipc = "params"
    /\ paramIdx > NumParams
    /\ ipc' = "done"
    /\ itx' = "committed"
    /\ itxLog' = Append(itxLog, "Commit")
    /\ UNCHANGED <<ifcGiven, previous, callIdx, bindings, bindingsBefore, bindSnapshot, paramIdx,
                   outcomes, apiCalls, dialogs>>
    /\ UNCHANGED rehostVars

\* transaction.Commit() raises: the except branch rolls back and reports.
CommitParamsRaises ==
    /\ ipc = "params"
    /\ paramIdx > NumParams
    /\ ipc' = "done"
    /\ itx' = "rolledback"
    /\ itxLog' = Append(itxLog, "RollBack")
    /\ bindings' = RollBack(bindings, bindSnapshot)
    /\ dialogs' = <<"An error occurred">>
    /\ UNCHANGED <<ifcGiven, previous, callIdx, bindingsBefore, bindSnapshot, paramIdx, outcomes,
                   apiCalls>>
    /\ UNCHANGED rehostVars

\* No "Change Level" command runs.
InitRehostIdle ==
    /\ script = "ceilings"
    /\ selection = {}
    /\ kind = [e \in Elems |-> "ceilings"]
    /\ doc = [e \in Elems |-> Bystander]
    /\ docBefore = doc
    /\ txSnapshot = doc
    /\ pc = "idle"
    /\ tx = "none"
    /\ txStarts = 0
    /\ defaultName = Cancelled
    /\ target = InvalidElementId
    /\ topOption = Cancelled
    /\ topTarget = InvalidElementId
    /\ idx = 0
    /\ counts = ZeroCounts
    /\ prompts = <<>>
    /\ writes = <<>>
    /\ result = <<>>
    /\ faulted = FALSE
    /\ commitRaised = FALSE
    /\ report = "none"

\* No "IFC Shared Parameters" command runs.
InitIfcIdle ==
    /\ calls = <<>>
    /\ fileDefs = {}
    /\ catStatus = <<>>
    /\ callIdx = 0
    /\ ipc = "idle"
    /\ bindings = <<>>
    /\ bindingsBefore = <<>>
    /\ bindSnapshot = <<>>
    /\ itx = "none"
    /\ itxLog = <<>>
    /\ paramIdx = 0
    /\ outcomes = <<>>
    /\ apiCalls = <<>>
    /\ dialogs = <<>>
    /\ previous = NoCall

Next ==
    \/ GetSelection
    \/ AskTargetLevel
    \/ AskTopOption
    \/ AskTopLevel
    \/ StartTransaction
    \/ ProcessElement
    \/ Commit
    \/ CommitRaises

Init == InitRehost /\ InitIfcIdle

Spec == Init /\ [][Next]_vars

NextIfc ==
    \/ BeginCall
    \/ OpenFile
    \/ ProcessParam
    \/ ParamRaises
    \/ CommitParams
    \/ CommitParamsRaises

InitIfc == InitRehostIdle /\ InitIfcState

SpecIfc == InitIfc /\ [][NextIfc]_vars

(***************************************************************************)
(* Properties of the "Change Level" commands.                              *)
(***************************************************************************)
\* The elements of the selection that are of the command's kind.
OwnSelected == {e \in selection : kind[e] = script}

\* Absolute elevation of the base of e before the command ran.
AbsBefore(e) == Elevation(docBefore[e].level) + docBefore[e].offset

\* Positions of result, and those where the base change returned True.
Processed == 1..Len(result)
Succeeded == {i \in Processed : result[i].base}

\* The field of an element that a parameter of script s stores.
FieldOf(s, d, e, param) ==
    IF param = LevelParam(s) THEN d[e].level
    ELSE IF param = OffsetParam(s) THEN d[e].offset
    ELSE IF param = TopLevelParam(s) THEN d[e].topLevel
    ELSE d[e].topOffset

\* writes[j] is the last Set call on its element and parameter.
LastWrite(j) ==
    \A k \in (j + 1)..Len(writes) :
        ~(writes[k].elem = writes[j].elem /\ writes[k].param = writes[j].param)

\* C1: whenever the change function of an element returns True, the offset it
\* wrote plus the elevation of the new level equals the element's absolute
\* elevation before the change (old level elevation plus old offset), and the
\* element has that absolute elevation for as long as the change stands.
C1_AbsoluteElevationPreserved ==
    \A i \in Succeeded :
        LET e == result[i].elem
            offsetSets == {j \in 1..Len(writes) :
                              writes[j].elem = e /\ writes[j].param = OffsetParam(script)}
        IN  /\ docBefore[e].level \in Levels
            /\ offsetSets # {}
            /\ \A j \in offsetSets : Elevation(target) + writes[j].value = AbsBefore(e)
            /\ tx # "rolledback" => Elevation(doc[e].level) + doc[e].offset = AbsBefore(e)

\* An element was moved to a level of another elevation and the run committed.
C1_Witness ==
    /\ tx = "committed"
    /\ \E i \in Succeeded : docBefore[result[i].elem].level # target

\* C2: after a committed run every element counted as a success has the target
\* level as its level, and the target level is the level whose name the user
\* picked in the target level prompt.
C2_SuccessesOnTargetLevel ==
    tx = "committed" =>
        /\ target \in Levels
        /\ prompts[1].prompt = "target"
        /\ prompts[1].answer = Name(target)
        /\ counts.success = Cardinality(Succeeded)
        /\ \A i \in Succeeded : doc[result[i].elem].level = target

\* A committed run moved an element to a picked level that is not the highest.
C2_Witness ==
    /\ tx = "committed"
    /\ target # get_levels[1]
    /\ \E i \in Succeeded : docBefore[result[i].elem].level # target

\* C3: a run that reaches processing starts exactly one transaction and makes
\* every write inside it; if it is rolled back the document is as it was
\* before the run, and if it commits the values written are kept.
C3_OneTransaction ==
    /\ txStarts <= 1
    /\ (pc = "loop" \/ writes # <<>> \/ report \in {"summary", "failed"}) => txStarts = 1
    /\ \A j \in 1..Len(writes) : writes[j].tx = "started"
    /\ tx = "none" => doc = docBefore
    /\ tx = "rolledback" => doc = docBefore
    /\ tx = "committed" =>
          /\ \A j \in 1..Len(writes) :
                LastWrite(j) => FieldOf(script, doc, writes[j].elem, writes[j].param)
                                    = writes[j].value
          /\ \A e \in Elems :
                (\A j \in 1..Len(writes) : writes[j].elem # e) => doc[e] = docBefore[e]

\* A run wrote to the document and was rolled back.
C3_Witness ==
    /\ tx = "rolledback"
    /\ \E j \in 1..Len(writes) : writes[j].value
                                    # FieldOf(script, docBefore, writes[j].elem, writes[j].param)

\* C4: an exception raised while one element is changed makes that change
\* return False and count as a failure; it does not roll the transaction back
\* or stop the loop: the later elements are processed and Commit is reached.
C4_ExceptionIsOneFailure ==
    /\ \A i \in Processed : result[i].baseRaised => ~result[i].base
    /\ \A i \in Processed : result[i].topRaised => result[i].top = "failed"
    /\ counts.fail = Cardinality(Processed \ Succeeded)
    /\ (\E i \in Processed : result[i].baseRaised \/ result[i].topRaised) =>
          /\ (pc = "loop" => tx = "started")
          /\ ((pc = "loop" /\ idx > Len(selected)) => ENABLED Commit)
          /\ (pc = "done" => /\ Len(result) = Len(selected)
                             /\ (tx = "committed" \/ commitRaised))
    /\ (/\ pc = "loop"
        /\ idx > 1
        /\ idx <= Len(selected)
        /\ (result[idx - 1].baseRaised \/ result[idx - 1].topRaised)) => ENABLED ProcessElement

\* An element that is not the last raised, the rest were processed, one of
\* them with success, and the run committed.
C4_Witness ==
    /\ tx = "committed"
    /\ \E i \in Processed : /\ result[i].baseRaised
                            /\ \E k \in Succeeded : k > i

\* C5: a started transaction is in the loop or at its end, where it can end
\* either way, and a run that started one has ended it with exactly one of
\* Commit and RollBack: RollBack only when t.Commit() raised, with the
\* 'Transaction Failed' alert and no summary; otherwise Commit and the
\* summary, whatever the number of failed elements.
C5_CommitOrRollBack ==
    /\ tx = "started" => /\ pc = "loop"
                          /\ idx \in 1..(Len(selected) + 1)
                          /\ (idx > Len(selected) => ENABLED Commit /\ ENABLED CommitRaises)
    /\ (pc = "done" /\ txStarts > 0) => tx \in {"committed", "rolledback"}
    /\ tx = "rolledback" => commitRaised /\ report = "failed" /\ Len(result) = Len(selected)
    /\ tx = "committed" => ~commitRaised /\ report = "summary" /\ Len(result) = Len(selected)
    /\ report = "summary" => tx = "committed"
    /\ report = "failed" => tx = "rolledback"
    /\ commitRaised => tx = "rolledback"

\* A run in which every element failed, and more than one, committed.
C5_Witness ==
    /\ tx = "committed"
    /\ report = "summary"
    /\ counts.success = 0
    /\ counts.fail >= 2

\* C6: the success and failure counters always add up to the number of
\* elements processed so far, each selected element being processed once and
\* in order; when the summary is shown they add up to the number of elements
\* of the command's kind in the selection.
C6_CountsAddUp ==
    /\ counts.success + counts.fail = Len(result)
    /\ counts.success = Cardinality(Succeeded)
    /\ pc = "loop" => Len(result) = idx - 1
    /\ \A i \in Processed : result[i].elem = selected[i]
    /\ \A i, k \in Processed : result[i].elem = result[k].elem => i = k
    /\ report = "summary" => counts.success + counts.fail = Cardinality(OwnSelected)

\* A summary that reports both successes and failures, for a selection that
\* also holds an element of another kind.
C6_Witness ==
    /\ report = "summary"
    /\ counts.success > 0
    /\ counts.fail > 0
    /\ selection # OwnSelected

\* C7: once the user has cancelled a prompt the run is over: no transaction
\* was or is started, nothing is written, the document is as it was and no
\* summary or alert is shown.
C7_CancelChangesNothing ==
    (\E i \in 1..Len(prompts) : prompts[i].answer = Cancelled) =>
        /\ pc = "done"
        /\ ~ENABLED Next
        /\ txStarts = 0
        /\ tx = "none"
        /\ writes = <<>>
        /\ result = <<>>
        /\ doc = docBefore
        /\ report = "none"

\* The third prompt, for the top target level, was cancelled.
C7_Witness ==
    /\ Len(prompts) = 3
    /\ prompts[3].answer = Cancelled
    /\ prompts[1].answer # Cancelled

\* Number of selected elements of the command's kind that refer to level l.
Refs(l) == Cardinality({e \in OwnSelected : docBefore[e].level = l})

\* C8: the default offered in the target level prompt names a most common
\* level of the selection: no other level is referenced by more of the
\* selected elements; if no selected element refers to a valid level it names
\* the highest level.
C8_DefaultIsMostCommon ==
    (pc \notin {"start", "idle"} /\ report # "noSelection") =>
        /\ defaultName \in LevelNames
        /\ LET l == CHOOSE l \in Levels : Name(l) = defaultName
           IN  IF \E m \in Levels : Refs(m) > 0
               THEN Refs(l) > 0 /\ \A m \in Levels : Refs(m) <= Refs(l)
               ELSE \A m \in Levels : Elevation(m) <= Elevation(l)

\* One level is referenced by more selected elements than another referenced
\* level that lies higher, and it is the default.
C8_Witness ==
    /\ pc = "askTarget"
    /\ \E l, m \in Levels : /\ Refs(l) > Refs(m)
                            /\ Refs(m) > 0
                            /\ Elevation(m) > Elevation(l)
                            /\ defaultName = Name(l)

\* The answers given so far, in order.
Answers == [i \in 1..Len(prompts) |-> prompts[i].answer]

\* The prompt a position of main() shows.
PromptOf(p) ==
    CASE p = "askTarget" -> "target"
      [] p = "askTopOption" -> "topOption"
      [] p = "askTopLevel" -> "topTarget"

\* Where main() of script s goes from a prompt with an answer.
StepPrompt(s, p, answer) ==
    CASE p = "askTarget" -> AfterPrompt(answer, AfterTargetLevel(s))
      [] p = "askTopOption" -> AfterPrompt(answer, AfterTopOption(answer))
      [] p = "askTopLevel" -> AfterPrompt(answer, "transaction")

\* The prompts script s shows from position p when it is given these answers,
\* the first unanswered one included.
RECURSIVE ShownPrompts(_, _, _)
ShownPrompts(s, p, answers) ==
    IF p \notin {"askTarget", "askTopOption", "askTopLevel"} THEN <<>>
    ELSE IF answers = <<>> THEN <<PromptOf(p)>>
    ELSE <<PromptOf(p)>> \o ShownPrompts(s, StepPrompt(s, p, Head(answers)), Tail(answers))

\* The prompts of this run, the one on screen included.
PromptsOfRun ==
    [i \in 1..Len(prompts) |-> prompts[i].prompt]
        \o (IF pc \in {"askTarget", "askTopOption", "askTopLevel"} THEN <<PromptOf(pc)>> ELSE <<>>)

\* What a parameter written by the run is to the element: its level, its
\* offset, its top level or its top offset.
RoleOf(param) ==
    IF param = LevelParam(script) THEN "level"
    ELSE IF param = OffsetParam(script) THEN "offset"
    ELSE IF param = TopLevelParam(script) THEN "topLevel"
    ELSE "topOffset"

\* The roles script s writes and the counters it keeps.
RolesOf(s) == {"level", "offset"} \cup (IF s \in TopScripts THEN {"topLevel", "topOffset"} ELSE {})
TopCounted == counts.top_success + counts.top_fail + counts.top_not_applicable

\* This run is what script s does on the same selection and answers: the same
\* prompts, writes to parameters of the same roles, the same counters.
RunsLike(s) ==
    /\ ShownPrompts(s, "askTarget", Answers) = PromptsOfRun
    /\ \A j \in 1..Len(writes) : RoleOf(writes[j].param) \in RolesOf(s)
    /\ TopCounted > 0 => s \in TopScripts

\* The base handling every script shares: the first prompt asks for the
\* target level, and a success writes the target level and then the offset.
BaseHandling ==
    /\ prompts # <<>> => prompts[1].prompt = "target"
    /\ \A i \in Succeeded :
          \E j \in 1..Len(writes) :
              /\ j < Len(writes)
              /\ writes[j] = [elem |-> result[i].elem, param |-> LevelParam(script),
                              value |-> target, tx |-> "started"]
              /\ writes[j + 1] = [elem |-> result[i].elem, param |-> OffsetParam(script),
                                  value |-> AbsBefore(result[i].elem) - Elevation(target),
                                  tx |-> "started"]

ParamAt(i) == TargetParams(calls[callIdx])[i]

\* ParameterBindings.Insert was called for p in this call and returned True.
InsertSucceeded(p) ==
    \E k \in 1..Len(apiCalls) : apiCalls[k] = [call |-> "Insert", param |-> p, ok |-> TRUE]

\* The categories of MAJOR_CATEGORIES that resolve and allow bound parameters.
AllowedCats == {c \in Cats : catStatus[c] = "ok"}

\* C10: after a committed run of add_shared_parameters every target parameter
\* that is defined in the shared parameter file and whose Insert succeeded is
\* bound, with the binding type of the call, to every category that resolves
\* and allows bound parameters; a target parameter that is not in the file is
\* skipped, its binding untouched, and the other parameters are processed.
C10_TargetParamsBound ==
    itx = "committed" =>
        /\ Len(outcomes) = NumParams
        /\ \A i \in 1..NumParams :
              LET p == ParamAt(i)
              IN  /\ i \notin fileDefs =>
                        /\ outcomes[i] = "notFound"
                        /\ bindings[p] = bindingsBefore[p]
                        /\ \A k \in 1..Len(apiCalls) : apiCalls[k].param # p
                  /\ i \in fileDefs => outcomes[i] # "notFound"
                  /\ (i \in fileDefs /\ InsertSucceeded(p)) =>
                        /\ bindings[p].bound
                        /\ bindings[p].type = calls[callIdx]
                        /\ AllowedCats \subseteq bindings[p].cats
                        /\ outcomes[i] \in {"added", "updated"}

\* A committed run skipped a parameter that is not in the file and then bound
\* a later one to more than one category.
C10_Witness ==
    /\ itx = "committed"
    /\ \E i, k \in 1..NumParams :
          /\ i < k
          /\ outcomes[i] = "notFound"
          /\ InsertSucceeded(ParamAt(k))
          /\ Cardinality(AllowedCats) >= 2
          /\ bindings[ParamAt(k)] # bindingsBefore[ParamAt(k)]

(***************************************************************************)
(* Further properties of the "Change Level" commands.                      *)
(***************************************************************************)
\* Absolute elevation of the top of e before the command ran.
TopAbsBefore(e) == Elevation(docBefore[e].topLevel) + docBefore[e].topOffset

\* C11: every offset written is the element's absolute elevation before the
\* run minus the elevation of the new level, and the Set call just before it
\* is the level write of the same element: the level is written first, the
\* offset second, and no offset write of an element precedes its level write.
\* The same holds for the top level and top offset of walls and stairs.
C11_LevelThenOffset ==
    \A j \in 1..Len(writes) :
        LET e == writes[j].elem
        IN  /\ writes[j].param = OffsetParam(script) =>
                /\ j > 1
                /\ writes[j - 1].elem = e
                /\ writes[j - 1].param = LevelParam(script)
                /\ writes[j - 1].value = target
                /\ writes[j].value = AbsBefore(e) - Elevation(target)
                /\ \A k \in 1..Len(writes) :
                      (writes[k].elem = e /\ writes[k].param = LevelParam(script)) => k < j
            /\ (script \in TopScripts /\ writes[j].param = TopOffsetParam(script)) =>
                /\ j > 1
                /\ writes[j - 1].elem = e
                /\ writes[j - 1].param = TopLevelParam(script)
                /\ writes[j - 1].value = topTarget
                /\ writes[j].value = TopAbsBefore(e) - Elevation(topTarget)

\* Two elements were moved to a level of another elevation, each with its
\* level written and then an offset that differs from the one it had.
C11_Witness ==
    \E j, k \in 1..Len(writes) :
        /\ j < k
        /\ writes[j].elem # writes[k].elem
        /\ writes[j].param = OffsetParam(script)
        /\ writes[k].param = OffsetParam(script)
        /\ writes[j].value # docBefore[writes[j].elem].offset
        /\ writes[k].value # docBefore[writes[k].elem].offset

\* The levels referenced by the largest number of selected elements.
TiedLevels == {l \in Levels : Refs(l) > 0 /\ \A m \in Levels : Refs(m) <= Refs(l)}

\* C12: when two or more levels are tied for the largest number of selected
\* elements, the level get_most_common_level returns, whose name is the
\* default of the target level prompt, is the highest of the tied levels.
C12_TieGivesHighest ==
    (pc \notin {"start", "idle"} /\ report # "noSelection" /\ Cardinality(TiedLevels) >= 2) =>
        \E l \in TiedLevels :
            /\ defaultName = Name(l)
            /\ \A m \in TiedLevels : Elevation(m) <= Elevation(l)

\* C13: a run changes only the selected elements of the command's kind: every
\* other element, selected or not, is never written and stays as it was; and
\* a run whose selection holds no element of the command's kind ends at the
\* 'please select' alert with no prompt, no transaction and no change.
C13_OnlyOwnSelectedChange ==
    /\ \A e \in Elems \ OwnSelected :
          /\ doc[e] = docBefore[e]
          /\ \A j \in 1..Len(writes) : writes[j].elem # e
          /\ \A i \in Processed : result[i].elem # e
    /\ (OwnSelected = {} /\ pc \notin {"start", "idle"}) =>
          /\ report = "noSelection"
          /\ pc = "done"
          /\ ~ENABLED Next
          /\ prompts = <<>>
          /\ txStarts = 0
          /\ writes = <<>>
          /\ doc = docBefore
    /\ report = "noSelection" => OwnSelected = {}

\* A committed run changed an element while the selection also held an
\* element of another kind and the document an element that was not selected.
C13_Witness ==
    /\ tx = "committed"
    /\ doc # docBefore
    /\ \E e \in selection : kind[e] # script
    /\ \E e \in Elems \ selection : kind[e] = script

\* Set calls on a top level or top offset parameter.
TopWrites == {j \in 1..Len(writes) : RoleOf(writes[j].param) \in {"topLevel", "topOffset"}}

\* C14: when the user chose not to change the top, no top level or top offset
\* is ever written, every element has the top level and top offset it had
\* before the run, and the three top counters stay 0.
C14_KeepTopWritesNoTop ==
    topOption = KeepTop =>
        /\ script \in TopScripts
        /\ TopWrites = {}
        /\ \A e \in Elems : /\ doc[e].topLevel = docBefore[e].topLevel
                            /\ doc[e].topOffset = docBefore[e].topOffset
        /\ counts.top_success = 0
        /\ counts.top_fail = 0
        /\ counts.top_not_applicable = 0
        /\ \A i \in Processed : result[i].top = "skipped"

\* A committed run that kept the top moved the base of an element whose top
\* is constrained to a level.
C14_Witness ==
    /\ topOption = KeepTop
    /\ tx = "committed"
    /\ \E i \in Succeeded : /\ docBefore[result[i].elem].topLevel # InvalidElementId
                            /\ docBefore[result[i].elem].level # target

\* Positions of result where the top change returned True.
TopChanged == {i \in Processed : result[i].top = "changed"}

\* C15: for every element whose top change returned True, the top level
\* written is the target top level the user picked, the top offset written
\* plus the elevation of that level equals the absolute top elevation the
\* element had before the run, and the element keeps both for as long as the
\* change stands.
C15_TopElevationPreserved ==
    \A i \in TopChanged :
        LET e == result[i].elem
            levelSets == {j \in 1..Len(writes) :
                             writes[j].elem = e /\ writes[j].param = TopLevelParam(script)}
            offsetSets == {j \in 1..Len(writes) :
                              writes[j].elem = e /\ writes[j].param = TopOffsetParam(script)}
        IN  /\ script \in TopScripts
            /\ topTarget \in Levels
            /\ prompts[3].answer = Name(topTarget)
            /\ docBefore[e].topLevel \in Levels
            /\ levelSets # {}
            /\ offsetSets # {}
            /\ \A j \in levelSets : writes[j].value = topTarget
            /\ \A j \in offsetSets : Elevation(topTarget) + writes[j].value = TopAbsBefore(e)
            /\ tx # "rolledback" =>
                  /\ doc[e].topLevel = topTarget
                  /\ Elevation(doc[e].topLevel) + doc[e].topOffset = TopAbsBefore(e)

\* A committed run moved the top of an element to a level of another
\* elevation, different from the target level of its base.
C15_Witness ==
    /\ tx = "committed"
    /\ topTarget # target
    /\ \E i \in TopChanged : docBefore[result[i].elem].topLevel # topTarget

\* C16: when the user chose to change the top, every element processed is
\* counted in exactly one of top success, top fail and top not applicable, so
\* the three counters add up to the number of elements processed and, at the
\* summary, to the number of selected elements of the command's kind; an
\* element whose top is constrained to a level has its top change attempted
\* whether or not its base change succeeded.
C16_TopCountsAddUp ==
    topOption = ChangeTop =>
        /\ \A i \in Processed : result[i].top \in {"changed", "failed", "notApplicable"}
        /\ counts.top_success = Cardinality(TopChanged)
        /\ counts.top_fail = Cardinality({i \in Processed : result[i].top = "failed"})
        /\ counts.top_not_applicable
              = Cardinality({i \in Processed : result[i].top = "notApplicable"})
        /\ TopCounted = Len(result)
        /\ report = "summary" => TopCounted = Cardinality(OwnSelected)
        /\ \A i \in Processed :
              IF docBefore[result[i].elem].topLevel # InvalidElementId
              THEN /\ result[i].top \in {"changed", "failed"}
                   /\ (~result[i].base /\ ~faulted) => result[i].top = "changed"
              ELSE result[i].top = "notApplicable"

\* A summary with the three top counters above 0 and an element whose base
\* change failed and whose top change succeeded.
C16_Witness ==
    /\ report = "summary"
    /\ counts.top_success > 0
    /\ counts.top_fail > 0
    /\ counts.top_not_applicable > 0
    /\ \E i \in TopChanged : ~result[i].base

\* C17: an element whose top is not constrained to a level never has its top
\* level or top offset written and is still unconnected at the top whatever
\* the run does; when the user chose to change the top it is counted as not
\* applicable.
C17_UnconnectedStaysUnconnected ==
    \A e \in Elems :
        docBefore[e].topLevel = InvalidElementId =>
            /\ \A j \in TopWrites : writes[j].elem # e
            /\ doc[e].topLevel = InvalidElementId
            /\ doc[e].topOffset = docBefore[e].topOffset
            /\ \A i \in Processed :
                  (result[i].elem = e /\ topOption = ChangeTop) =>
                      /\ result[i].top = "notApplicable"
                      /\ ~result[i].topRaised
                      /\ counts.top_not_applicable >= 1

\* A committed run that changed tops moved the base of an element that is
\* unconnected at the top, and the top of another element.
C17_Witness ==
    /\ tx = "committed"
    /\ topOption = ChangeTop
    /\ TopChanged # {}
    /\ \E i \in Succeeded : /\ docBefore[result[i].elem].topLevel = InvalidElementId
                            /\ docBefore[result[i].elem].level # target
                            /\ result[i].top = "notApplicable"

(***************************************************************************)
(* Further properties of the "IFC Shared Parameters" command.              *)
(***************************************************************************)
\* The running call is a second call with the binding type of the first, and
\* the first committed with every Insert it made returning True.
SecondRunAfterCleanFirst ==
    /\ callIdx = 2
    /\ calls[1] = calls[2]
    /\ previous.itx = "committed"
    /\ \A k \in 1..Len(previous.api) : previous.api[k].ok

\* C18 as stated: in such a second run no binding changes, neither Remove nor
\* Insert is called, and every target parameter is reported as already
\* having all target categories.
C18_SecondRunAllAlready ==
    SecondRunAfterCleanFirst =>
        /\ bindings = bindingsBefore
        /\ apiCalls = <<>>
        /\ \A i \in 1..Len(outcomes) : outcomes[i] = "already"

\* C18: in such a second run no binding changes, neither Remove nor Insert is
\* called, and every target parameter that the file defines is reported as
\* already having all target categories; one the file does not define is
\* reported as not found, as in the first run.
C18_SecondRunChangesNothing ==
    SecondRunAfterCleanFirst =>
        /\ bindings = bindingsBefore
        /\ apiCalls = <<>>
        /\ \A i \in 1..Len(outcomes) :
              outcomes[i] = IF i \in fileDefs THEN "already" ELSE "notFound"

\* A second run went through every parameter and committed, after a first
\* run that inserted a binding.
C18_Witness ==
    /\ SecondRunAfterCleanFirst
    /\ itx = "committed"
    /\ Len(outcomes) = NumParams
    /\ \E k \in 1..Len(previous.api) : previous.api[k].call = "Insert"
    /\ \E i \in 1..NumParams : outcomes[i] = "already"

\* The dialogs add_shared_parameters shows when it fails.
ErrorDialogs == {"Shared parameters file not found",
                 "Could not open shared parameters file", "An error occurred"}

\* C19: on every error outcome of add_shared_parameters the parameter
\* bindings are what they were when the call began: if the file does not
\* exist no transaction is started; if the file cannot be opened or an
\* exception is raised in the body the transaction is rolled back; and a
\* started transaction ends with exactly one Commit or RollBack.
C19_ErrorsChangeNothing ==
    /\ \A k \in 1..Len(dialogs) : dialogs[k] \in ErrorDialogs
    /\ dialogs # <<>> =>
          /\ Len(dialogs) = 1
          /\ ipc = "done"
          /\ bindings = bindingsBefore
          /\ IF dialogs[1] = "Shared parameters file not found"
             THEN itx = "none" /\ itxLog = <<>>
             ELSE itx = "rolledback" /\ itxLog = <<"Start", "RollBack">>
    /\ itx = "rolledback" => dialogs # <<>> /\ bindings = bindingsBefore
    /\ itx = "committed" => dialogs = <<>> /\ itxLog = <<"Start", "Commit">>
    /\ itx = "started" =>
          /\ itxLog = <<"Start">>
          /\ ipc \in {"open", "params"}
          /\ ENABLED NextIfc
    /\ (ipc = "done" /\ itxLog # <<>>) => itx \in {"committed", "rolledback"}

\* A call inserted a binding, then an exception was raised and the
\* transaction was rolled back.
C19_Witness ==
    /\ itx = "rolledback"
    /\ dialogs = <<"An error occurred">>
    /\ \E k \in 1..Len(apiCalls) : apiCalls[k].call = "Insert" /\ apiCalls[k].ok
    /\ bindSnapshot = bindingsBefore

(***************************************************************************)
(* Failed elements of the "Change Level" commands.                         *)
(***************************************************************************)
\* C20: in the committed document every element counted as a failure has the
\* level and the offset it had before the run.
C20_FailedElementUnchanged ==
    tx = "committed" =>
        \A i \in Processed \ Succeeded :
            /\ doc[result[i].elem].level = docBefore[result[i].elem].level
            /\ doc[result[i].elem].offset = docBefore[result[i].elem].offset

====
